---- MODULE Spec2Model ----
(***************************************************************************)
(* Reference Image Selector (reference_image_selector.py): the review      *)
(* session (navigation, per-image selection and color), the selection      *)
(* store (save_selection, is_product_completed, the delete section) and    *)
(* the catalog scanner (get_all_product_folders, get_images_in_folder).    *)
(*                                                                         *)
(* Three specifications share the module:                                  *)
(*   Spec      one review session; every action is one user event and the  *)
(*             whole script run (and rerun) it triggers.                   *)
(*   ConcSpec  several sessions inside save_selection for the same         *)
(*             product, one file-system call per step, and a reader.       *)
(*   ScanSpec  get_all_product_folders applied to bounded source trees     *)
(*             under every enumeration order of the directory.             *)
(***************************************************************************)
EXTENDS Integers, Sequences, FiniteSets, TLC

----------------------------------------------------------------------------
(* Bounds of the model. *)

NumProducts == 3     \* product folders under SOURCE_FOLDER
NumImages == 2       \* image files of a product folder
NumColors == 2       \* how many of COLOR_OPTIONS the reviewer picks from
MaxJump == 5         \* largest number typed into "Jump to Product #"
MaxEvents == 7       \* user events (clicks, entries) in one behaviour
MaxVanish == 1       \* source files removed from outside during the session

----------------------------------------------------------------------------
(* Configuration and names. *)

SUPPORTED_EXTENSIONS == {".jpg", ".jpeg", ".png", ".webp", ".gif", ".bmp", ".tiff"}

COLOR_OPTIONS ==
    << "unknown", "black", "white", "red", "blue", "green", "yellow", "orange",
       "purple", "pink", "brown", "grey", "gray", "navy", "beige", "gold",
       "silver", "multicolor", "camo", "other" >>

Colors == {COLOR_OPTIONS[k] : k \in 1..NumColors}

\* str.lower() on the suffixes the model uses.
Lower(s) ==
    CASE s = ".JPG" -> ".jpg"
      [] s = ".PNG" -> ".png"
      [] s = ".ZIP" -> ".zip"
      [] OTHER -> s

\* A file of a product folder is named by a number: file 0 is an archive,
\* files 1..NumImages are images; the numbers are in the order of the
\* lower-cased file names.  Path(name).suffix of file i:
Suffix(i) ==
    IF i = 0 THEN ".zip" ELSE IF i % 2 = 1 THEN ".png" ELSE ".JPG"

FileNames == 0..NumImages

Products == 1..NumProducts

\* st.session_state.product_folders: the folders in scanner order.
product_folders == [k \in 1..NumProducts |-> k]

\* The source tree at session start: every product holds every file, except
\* that the last product has no file 1.
InitialSource ==
    {<<p, i>> : p \in Products, i \in FileNames} \ {<<NumProducts, 1>>}

\* The bytes of source file i of product p.
SourceContent(p, i) == [product |-> p, file |-> i]

----------------------------------------------------------------------------
(* Catalog scanner: get_images_in_folder. *)

RECURSIVE SortNames(_)
SortNames(S) ==
    IF S = {} THEN << >>
    ELSE LET m == CHOOSE x \in S : \A y \in S : x <= y
         IN  << m >> \o SortNames(S \ {m})

get_images_in_folder(files, p) ==
    SortNames({i \in FileNames :
                  /\ <<p, i>> \in files
                  /\ Lower(Suffix(i)) \in SUPPORTED_EXTENSIONS})

is_product_completed(out, p) == out[p].selection.kind # "absent"

----------------------------------------------------------------------------
(* The output tree.  A product's output folder holds ref_* files, the      *)
(* temporary file .selection.json.tmp and selection.json.                  *)

Absent == [kind |-> "absent"]
Partial == [kind |-> "partial"]

NoFolder == [exists |-> FALSE, refs |-> {}, tmp |-> Absent, selection |-> Absent]

\* f"ref_{idx}_{color}{ext}"
RefName(idx, color, ext) == [idx |-> idx, color |-> color, ext |-> ext]

\* Write file `name` with `content`, replacing a file of that name.
PutFile(refs, name, content) ==
    {f \in refs : f.name # name} \cup {[name |-> name, content |-> content]}

----------------------------------------------------------------------------
(* Selection store: save_selection.                                        *)
(*                                                                         *)
(* A file-system call of save_selection may raise; `fault` names the call  *)
(* that does (step "none": no call raises):                                *)
(*   "mkdir"    product_output_folder.mkdir                                *)
(*   "copy"     shutil.copy2 of selection number fault.at; fault.torn says *)
(*              whether the destination was already opened (and is left    *)
(*              truncated or half written)                                 *)
(*   "open"     open(temp_file, "w")                                       *)
(*   "dump"     json.dump, after part of the text reached the file         *)
(*   "replace"  temp_file.replace(selection_file)                          *)
(* The record carries no timestamp: no property compares timestamps.       *)

Faults(n) ==
    {[step |-> s, at |-> 0, torn |-> FALSE] :
        s \in {"none", "mkdir", "open", "dump", "replace"}}
    \cup {[step |-> "copy", at |-> k, torn |-> t] : k \in 1..n, t \in BOOLEAN}

\* img_info.get("color", "unknown") or "unknown"
ColorOf(img_info) == IF img_info.color = "" THEN "unknown" ELSE img_info.color

\* new_filename of the idx-th selection
NewFilename(idx, img_info) ==
    RefName(idx, ColorOf(img_info), Lower(Suffix(img_info.original_file)))

\* The ref_* files after shutil.copy2 ran for selections 1..n.
RECURSIVE CopyImages(_, _, _, _)
CopyImages(refs, p, selected_images, n) ==
    IF n = 0 THEN refs
    ELSE PutFile(CopyImages(refs, p, selected_images, n - 1),
                 NewFilename(n, selected_images[n]),
                 SourceContent(p, selected_images[n].original_file))

images_metadata(selected_images) ==
    [idx \in 1..Len(selected_images) |->
        [original_file |-> selected_images[idx].original_file,
         saved_file |-> NewFilename(idx, selected_images[idx]),
         color |-> ColorOf(selected_images[idx])]]

selection_data(p, selected_images, user) ==
    [kind |-> "record",
     product_name |-> p,
     completed |-> TRUE,
     selected_by |-> user,
     images |-> images_metadata(selected_images)]

missing_files(files, p, selected_images) ==
    SelectSeq(selected_images, LAMBDA img : <<p, img.original_file>> \notin files)

\* mkdir(parents=True, exist_ok=True)
Mkdir(folder) == [folder EXCEPT !.exists = TRUE]

\* The copy loop, with copy number fault.at raising (0: none raises).
CopyLoop(folder, p, selected_images, fault) ==
    IF fault.step = "copy"
    THEN LET done == CopyImages(folder.refs, p, selected_images, fault.at - 1)
         IN  [folder EXCEPT !.refs =
                 IF fault.torn
                 THEN PutFile(done, NewFilename(fault.at, selected_images[fault.at]),
                              Partial)
                 ELSE done]
    ELSE [folder EXCEPT !.refs =
             CopyImages(folder.refs, p, selected_images, Len(selected_images))]

\* temp_file.replace(selection_file): the rename publishes the temporary file.
Replace(folder) == [folder EXCEPT !.selection = folder.tmp, !.tmp = Absent]

\* Mutant: json.dump straight into selection.json, with no temporary file.
WriteMetadataInPlace(folder, data, fault) ==
    CASE fault.step = "open" -> folder
      [] fault.step = "dump" -> [folder EXCEPT !.selection = Partial]
      [] OTHER -> [folder EXCEPT !.selection = data]

\* Mutant: the new images are appended to those of the record already there.
WriteMetadataMerge(folder, data, fault) ==
    LET merged == IF folder.selection.kind = "record"
                  THEN [data EXCEPT !.images = folder.selection.images \o data.images]
                  ELSE data
    IN  CASE fault.step = "open" -> folder
          [] fault.step = "dump" -> [folder EXCEPT !.tmp = Partial]
          [] fault.step = "replace" -> [folder EXCEPT !.tmp = merged]
          [] OTHER -> Replace([folder EXCEPT !.tmp = merged])

\* open(temp_file, "w"), json.dump, the rename.
WriteMetadata(folder, data, fault) ==
    CASE fault.step = "open" -> folder
      [] fault.step = "dump" -> [folder EXCEPT !.tmp = Partial]
      [] fault.step = "replace" -> [folder EXCEPT !.tmp = data]
      [] OTHER -> Replace([folder EXCEPT !.tmp = data])

\* save_selection: the product's output folder after the call, and what the
\* call returns ("ok": True; "missing": False after the missing-source
\* message; "io": False from the except branch).
save_selection(folder, files, p, selected_images, user, fault) ==
    IF fault.step = "mkdir"
    THEN [folder |-> folder, result |-> "io"]
    ELSE LET made == Mkdir(folder)
         IN  IF missing_files(files, p, selected_images) # << >>
             THEN [folder |-> made, result |-> "missing"]
             ELSE LET copied == CopyLoop(made, p, selected_images, fault)
                  IN  IF fault.step = "copy"
                      THEN [folder |-> copied, result |-> "io"]
                      ELSE [folder |->
                               WriteMetadata(copied,
                                   selection_data(p, selected_images, user), fault),
                            result |-> IF fault.step = "none" THEN "ok" ELSE "io"]

\* What a raising shutil.rmtree can leave of `folder`: the folder itself with
\* any part of its files.
RmtreeLeftovers(folder) ==
    {[exists |-> TRUE, refs |-> r, tmp |-> t, selection |-> s] :
        r \in SUBSET folder.refs,
        t \in {folder.tmp, Absent},
        s \in {folder.selection, Absent}}

\* Mutant: only selection.json is unlinked; the copied images stay.
delete_record_only(out, p, left) ==
    IF is_product_completed(out, p)
    THEN [folder |-> [out[p] EXCEPT !.selection = Absent], result |-> "ok"]
    ELSE [folder |-> out[p], result |-> "not_found"]

\* Mutant: the folder is removed whenever it exists, record or not.
delete_existing_folder(out, p, left) ==
    IF out[p].exists
    THEN [folder |-> left,
          result |-> IF left = NoFolder THEN "ok" ELSE "io"]
    ELSE [folder |-> out[p], result |-> "not_found"]

\* The delete section for product p: what it reports and the output folder it
\* leaves.  `left` is what shutil.rmtree leaves (NoFolder: it did not raise).
delete_selection(out, p, left) ==
    IF is_product_completed(out, p)
    THEN [folder |-> left,
          result |-> IF left = NoFolder THEN "ok" ELSE "io"]
    ELSE [folder |-> out[p], result |-> "not_found"]

----------------------------------------------------------------------------
(* Review session: st.session_state and the widgets of the image grid.     *)

VARIABLES
    current_index,         \* st.session_state.current_index
    username,              \* st.session_state.username
    current_selections,    \* st.session_state.current_selections, a dict: the
                           \* sequence of its entries in insertion order
    last_loaded_product,   \* st.session_state.last_loaded_product (0: None)
    widgets,               \* per image name, the state of the widgets keyed
                           \* select_<name> and color_<name>
    clicks,                \* the images ticked on the current product, in the
                           \* order the reviewer ticked them
    source_files,          \* the files under SOURCE_FOLDER
    output_folder,         \* per product, its folder under OUTPUT_FOLDER
    last_op,               \* the handler that ran last and what it reported
    events                 \* user events handled so far

\* Concurrent saves of one product (ConcSpec).
VARIABLES
    inodes,                \* the files of the product's output folder, by
                           \* inode: the text each holds, a sequence of chunks
    tmp_ino,               \* the inode named .selection.json.tmp (0: no such name)
    sel_ino,               \* the inode named selection.json (0: no such name)
    savers,                \* per session, where it is inside save_selection
    observed               \* what the reader last read from selection.json

\* Scans of the source tree (ScanSpec).
VARIABLES
    source_tree,           \* the entries directly under SOURCE_FOLDER
    source_exists,         \* SOURCE_FOLDER.exists()
    scan_result,           \* what the last get_all_product_folders returned
    scan_prev              \* what the call before it returned

session_vars ==
    << current_index, username, current_selections, last_loaded_product,
       widgets, clicks, source_files, output_folder, last_op, events >>

conc_vars == << inodes, tmp_ino, sel_ino, savers, observed >>

scan_vars == << source_tree, source_exists, scan_result, scan_prev >>

Max(a, b) == IF a > b THEN a ELSE b

Min(a, b) == IF a < b THEN a ELSE b

Usernames == {"", "ann"}

None == 0

Entry(name) == [name |-> name, selected |-> FALSE, color |-> "unknown"]

NoWidget == [live |-> FALSE, select |-> FALSE, color |-> "unknown"]

NoWidgets == [i \in FileNames |-> NoWidget]

Names(sel) == {sel[k].name : k \in DOMAIN sel}

IndexOf(sel, name) == CHOOSE k \in DOMAIN sel : sel[k].name = name

RECURSIVE SeqOf(_, _)
\* The entries for images[1..n], in that order.
SeqOf(images, n) ==
    IF n = 0 THEN << >> ELSE Append(SeqOf(images, n - 1), Entry(images[n]))

reset_selections_for_product(sel, last, p, images) ==
    IF last # p THEN SeqOf(images, Len(images)) ELSE sel

\* Mutant: a ticked image's entry is removed and inserted again, which puts
\* it last in the dict.
RenderCellReinsert(st, w, name) ==
    LET sel1 == IF name \in Names(st.selections) THEN st.selections
                ELSE Append(st.selections, Entry(name))
        k == IndexOf(sel1, name)
        is_selected == IF w[name].live THEN w[name].select ELSE sel1[k].selected
        selected_color == IF w[name].live THEN w[name].color ELSE sel1[k].color
        entry == [name |-> name,
                  selected |-> is_selected,
                  color |-> IF is_selected THEN selected_color ELSE sel1[k].color]
    IN  [selections |->
            IF is_selected /\ ~sel1[k].selected
            THEN Append(SelectSeq(sel1, LAMBDA e : e.name # name), entry)
            ELSE [sel1 EXCEPT ![k] = entry],
         widgets |->
            [st.widgets EXCEPT ![name] =
                [live |-> TRUE, select |-> is_selected, color |-> selected_color]]]

\* Mutant: the color is stored whether or not the box is ticked.
RenderCellStoreAlways(st, w, name) ==
    LET sel1 == IF name \in Names(st.selections) THEN st.selections
                ELSE Append(st.selections, Entry(name))
        k == IndexOf(sel1, name)
        is_selected == IF w[name].live THEN w[name].select ELSE sel1[k].selected
        current_color == sel1[k].color
        selected_color ==
            IF w[name].live THEN w[name].color
            ELSE IF current_color \in Colors THEN current_color ELSE COLOR_OPTIONS[1]
    IN  [selections |->
            [sel1 EXCEPT ![k] =
                [name |-> name,
                 selected |-> is_selected,
                 color |-> selected_color]],
         widgets |->
            [st.widgets EXCEPT ![name] =
                [live |-> TRUE, select |-> is_selected, color |-> selected_color]]]

\* One cell of the grid: the entry is created if missing, the checkbox
\* returns the widget's state (its `value` argument when the widget is new),
\* the selectbox likewise, and the color is stored only if the box is ticked.
RenderCell(st, w, name) ==
    LET sel1 == IF name \in Names(st.selections) THEN st.selections
                ELSE Append(st.selections, Entry(name))
        k == IndexOf(sel1, name)
        is_selected == IF w[name].live THEN w[name].select ELSE sel1[k].selected
        current_color == sel1[k].color
        selected_color ==
            IF w[name].live THEN w[name].color
            ELSE IF current_color \in Colors THEN current_color ELSE COLOR_OPTIONS[1]
    IN  [selections |->
            [sel1 EXCEPT ![k] =
                [name |-> name,
                 selected |-> is_selected,
                 color |-> IF is_selected THEN selected_color ELSE current_color]],
         widgets |->
            [st.widgets EXCEPT ![name] =
                [live |-> TRUE, select |-> is_selected, color |-> selected_color]]]

RECURSIVE RenderGrid(_, _, _, _)
\* The grid loop over product_images[1..n]; widgets not rendered are dropped.
RenderGrid(sel, w, images, n) ==
    IF n = 0 THEN [selections |-> sel, widgets |-> NoWidgets]
    ELSE RenderCell(RenderGrid(sel, w, images, n - 1), w, images[n])

\* main() down to the grid: the current product's listing, the reset, the grid.
ScriptRun(idx, last, sel, w, files) ==
    LET p == product_folders[idx + 1]
        images == get_images_in_folder(files, p)
    IN  RenderGrid(reset_selections_for_product(sel, last, p, images),
                   w, images, Len(images))

\* "Collect selected images for save validation"
selected_images_of(sel) ==
    LET chosen == SelectSeq(sel, LAMBDA e : e.selected)
    IN  [k \in 1..Len(chosen) |->
            [original_file |-> chosen[k].name, color |-> chosen[k].color]]

can_save(user, sel) == user # "" /\ selected_images_of(sel) # << >>

go_to_previous(idx) == IF idx - 1 > 0 THEN idx - 1 ELSE 0

\* Mutant: Next wraps round to the first product.
go_to_next_wrapping(idx) == (idx + 1) % Len(product_folders)

go_to_next(idx) ==
    IF idx + 1 < Len(product_folders) - 1 THEN idx + 1 ELSE Len(product_folders) - 1

\* st.number_input(min_value=1, max_value=total): a number in range is
\* returned as typed; the source has no code for a number out of range, and
\* the widget either pins it to the nearer end or refuses it and keeps the
\* value it shows.
number_input(typed, lo, hi, shown) ==
    IF lo <= typed /\ typed <= hi THEN {typed}
    ELSE {IF typed < lo THEN lo ELSE hi, shown}

----------------------------------------------------------------------------
(* The session's actions: one user event, the script run that handles it   *)
(* and the rerun it asks for.                                              *)

\* init_session_state
SessionInit ==
    /\ current_index = 0
    /\ username = ""
    /\ current_selections = << >>
    /\ last_loaded_product = None
    /\ widgets = NoWidgets
    /\ clicks = << >>
    /\ source_files = InitialSource
    /\ output_folder = [p \in Products |-> NoFolder]
    /\ last_op = [kind |-> "none"]
    /\ events = 0

Loaded == last_loaded_product # None

CurrentProduct == product_folders[current_index + 1]

Without(seq, name) == SelectSeq(seq, LAMBDA x : x # name)

\* The first script run of the session.
Load ==
    /\ ~Loaded
    /\ LET r == ScriptRun(current_index, last_loaded_product,
                          current_selections, widgets, source_files)
       IN  /\ current_selections' = r.selections
           /\ widgets' = r.widgets
    /\ last_loaded_product' = CurrentProduct
    /\ UNCHANGED << current_index, username, clicks, source_files,
                    output_folder, last_op, events >>
    /\ UNCHANGED << conc_vars, scan_vars >>

\* The reviewer ticks or unticks the checkbox of image i.
ToggleSelection(i) ==
    /\ Loaded
    /\ events < MaxEvents
    /\ widgets[i].live
    /\ LET w1 == [widgets EXCEPT ![i].select = ~widgets[i].select]
           r == ScriptRun(current_index, last_loaded_product,
                          current_selections, w1, source_files)
       IN  /\ current_selections' = r.selections
           /\ widgets' = r.widgets
           /\ clicks' = IF ~r.widgets[i].live THEN clicks
                        ELSE IF w1[i].select THEN Append(Without(clicks, i), i)
                        ELSE Without(clicks, i)
    /\ last_op' = [kind |-> "ui"]
    /\ UNCHANGED << current_index, username, last_loaded_product, source_files,
                    output_folder >>
    /\ events' = events + 1
    /\ UNCHANGED << conc_vars, scan_vars >>

\* The reviewer picks color c in the selectbox of image i, which is enabled
\* only while the image's checkbox is ticked.
SetColor(i, c) ==
    /\ Loaded
    /\ events < MaxEvents
    /\ widgets[i].live
    /\ widgets[i].select
    /\ c # widgets[i].color
    /\ LET w1 == [widgets EXCEPT ![i].color = c]
           r == ScriptRun(current_index, last_loaded_product,
                          current_selections, w1, source_files)
       IN  /\ current_selections' = r.selections
           /\ widgets' = r.widgets
    /\ last_op' = [kind |-> "ui"]
    /\ UNCHANGED << current_index, username, last_loaded_product, clicks,
                    source_files, output_folder >>
    /\ events' = events + 1
    /\ UNCHANGED << conc_vars, scan_vars >>

\* The reviewer types a name into "Your Name".
SetUsername(u) ==
    /\ Loaded
    /\ events < MaxEvents
    /\ u # username
    /\ username' = u
    /\ LET r == ScriptRun(current_index, last_loaded_product,
                          current_selections, widgets, source_files)
       IN  /\ current_selections' = r.selections
           /\ widgets' = r.widgets
    /\ last_op' = [kind |-> "ui"]
    /\ UNCHANGED << current_index, last_loaded_product, clicks, source_files,
                    output_folder >>
    /\ events' = events + 1
    /\ UNCHANGED << conc_vars, scan_vars >>

\* The rerun after a navigation: the product at idx is loaded.  With `kept`
\* the widgets keyed by an image name keep their state when the next product
\* renders a widget of the same key; without it they start from `value`.
Rerun(idx, sel, w, kept) ==
    ScriptRun(idx, None, sel, IF kept THEN w ELSE NoWidgets, source_files)

\* "Previous" (disabled on the first product): go_to_previous, st.rerun().
Previous ==
    /\ Loaded
    /\ events < MaxEvents
    /\ current_index # 0
    /\ LET r0 == ScriptRun(current_index, last_loaded_product,
                           current_selections, widgets, source_files)
           idx == go_to_previous(current_index)
       IN  /\ current_index' = idx
           /\ last_loaded_product' = product_folders[idx + 1]
           /\ \E kept \in BOOLEAN :
                LET r1 == Rerun(idx, r0.selections, r0.widgets, kept)
                IN  /\ current_selections' = r1.selections
                    /\ widgets' = r1.widgets
    /\ clicks' = << >>
    /\ last_op' = [kind |-> "nav", via |-> "previous", from |-> current_index,
                   request |-> 0]
    /\ UNCHANGED << username, source_files, output_folder >>
    /\ events' = events + 1
    /\ UNCHANGED << conc_vars, scan_vars >>

\* The reviewer types `typed` into "Jump to Product #".  The run that sees a
\* changed number stops at st.rerun() before the grid, so no grid widget is
\* rendered in it and the rerun builds them anew.
Jump(typed) ==
    /\ Loaded
    /\ events < MaxEvents
    /\ typed # current_index + 1
    /\ \E jump_to \in number_input(typed, 1, Len(product_folders), current_index + 1) :
          IF jump_to # current_index + 1
          THEN /\ current_index' = jump_to - 1
               /\ last_loaded_product' = product_folders[jump_to]
               /\ LET r1 == Rerun(jump_to - 1, current_selections, widgets, FALSE)
                  IN  /\ current_selections' = r1.selections
                      /\ widgets' = r1.widgets
               /\ clicks' = << >>
          ELSE UNCHANGED << current_index, last_loaded_product,
                            current_selections, widgets, clicks >>
    /\ last_op' = [kind |-> "nav", via |-> "jump", from |-> current_index,
                   request |-> typed]
    /\ UNCHANGED << username, source_files, output_folder >>
    /\ events' = events + 1
    /\ UNCHANGED << conc_vars, scan_vars >>

\* Mutant: "Save & Next" moves on whether or not the save succeeded.
SaveAndNextAdvancing ==
    /\ Loaded
    /\ events < MaxEvents
    /\ LET p == CurrentProduct
           r0 == ScriptRun(current_index, last_loaded_product,
                           current_selections, widgets, source_files)
           selected_images == selected_images_of(r0.selections)
           idx == go_to_next(current_index)
       IN  /\ can_save(username, r0.selections)
           /\ \E fault \in Faults(Len(selected_images)) :
                LET res == save_selection(output_folder[p], source_files, p,
                                          selected_images, username, fault)
                IN  /\ output_folder' = [output_folder EXCEPT ![p] = res.folder]
                    /\ last_op' = [kind |-> "save", product |-> p,
                                   selected_images |-> selected_images,
                                   username |-> username,
                                   result |-> res.result,
                                   clicks |-> clicks,
                                   from |-> current_index]
           /\ current_index' = idx
           /\ last_loaded_product' = product_folders[idx + 1]
           /\ clicks' = << >>
           /\ \E kept \in BOOLEAN :
                LET r1 == Rerun(idx, r0.selections, r0.widgets, kept)
                IN  /\ current_selections' = r1.selections
                    /\ widgets' = r1.widgets
    /\ events' = events + 1
    /\ UNCHANGED << username, source_files >>
    /\ UNCHANGED << conc_vars, scan_vars >>

\* "Save & Next" (disabled unless can_save): save_selection, and on success
\* go_to_next and st.rerun().
SaveAndNext ==
    /\ Loaded
    /\ events < MaxEvents
    /\ LET p == CurrentProduct
           r0 == ScriptRun(current_index, last_loaded_product,
                           current_selections, widgets, source_files)
           selected_images == selected_images_of(r0.selections)
       IN  /\ can_save(username, r0.selections)
           /\ \E fault \in Faults(Len(selected_images)) :
                LET res == save_selection(output_folder[p], source_files, p,
                                          selected_images, username, fault)
                IN  /\ output_folder' = [output_folder EXCEPT ![p] = res.folder]
                    /\ last_op' = [kind |-> "save", product |-> p,
                                   selected_images |-> selected_images,
                                   username |-> username,
                                   result |-> res.result,
                                   clicks |-> clicks,
                                   from |-> current_index]
                    /\ IF res.result = "ok"
                       THEN LET idx == go_to_next(current_index)
                            IN  /\ current_index' = idx
                                /\ last_loaded_product' = product_folders[idx + 1]
                                /\ clicks' = << >>
                                /\ \E kept \in BOOLEAN :
                                     LET r1 == Rerun(idx, r0.selections,
                                                     r0.widgets, kept)
                                     IN  /\ current_selections' = r1.selections
                                         /\ widgets' = r1.widgets
                       ELSE /\ current_selections' = r0.selections
                            /\ widgets' = r0.widgets
                            /\ UNCHANGED << current_index, last_loaded_product,
                                            clicks >>
    /\ events' = events + 1
    /\ UNCHANGED << username, source_files >>
    /\ UNCHANGED << conc_vars, scan_vars >>

\* The "Delete Current Selection" section: "Confirm Delete" when the product
\* is completed, the not-completed notice otherwise.
Delete ==
    /\ Loaded
    /\ events < MaxEvents
    /\ LET p == CurrentProduct
           r0 == ScriptRun(current_index, last_loaded_product,
                           current_selections, widgets, source_files)
       IN  /\ \E left \in {NoFolder} \cup RmtreeLeftovers(output_folder[p]) :
                LET res == delete_selection(output_folder, p, left)
                IN  /\ output_folder' = [output_folder EXCEPT ![p] = res.folder]
                    /\ last_op' = [kind |-> "delete", product |-> p,
                                   result |-> res.result]
           /\ events' = events + 1
           /\ current_selections' = r0.selections
           /\ widgets' = r0.widgets
    /\ UNCHANGED << current_index, username, last_loaded_product, clicks,
                    source_files >>
    /\ UNCHANGED << conc_vars, scan_vars >>

\* Streamlit hands a run the widget states of every change the browser has
\* sent so far, and `disabled` only greys a widget in the page that the run
\* renders: st.button returns a click made on the page of the run before.
\* The three actions below are two such changes handled by one run.

\* The body of `if st.button("Save & Next")` in a run that starts from
\* username `user` and widget states `w1`: nothing in it looks at can_save.
SaveClicked(user, w1) ==
    LET p == CurrentProduct
        r0 == ScriptRun(current_index, last_loaded_product,
                        current_selections, w1, source_files)
        selected_images == selected_images_of(r0.selections)
    IN  \E fault \in Faults(Len(selected_images)) :
           LET res == save_selection(output_folder[p], source_files, p,
                                     selected_images, user, fault)
           IN  /\ output_folder' = [output_folder EXCEPT ![p] = res.folder]
               /\ last_op' = [kind |-> "save", product |-> p,
                              selected_images |-> selected_images,
                              username |-> user,
                              result |-> res.result,
                              clicks |-> clicks,
                              from |-> current_index]
               /\ IF res.result = "ok"
                  THEN LET idx == go_to_next(current_index)
                       IN  /\ current_index' = idx
                           /\ last_loaded_product' = product_folders[idx + 1]
                           /\ clicks' = << >>
                           /\ \E kept \in BOOLEAN :
                                LET r1 == Rerun(idx, r0.selections,
                                                r0.widgets, kept)
                                IN  /\ current_selections' = r1.selections
                                    /\ widgets' = r1.widgets
                  ELSE /\ current_selections' = r0.selections
                       /\ widgets' = r0.widgets
                       /\ UNCHANGED << current_index, last_loaded_product,
                                       clicks >>

\* The reviewer clears "Your Name" and clicks "Save & Next", which the page
\* still shows enabled: leaving the text field sends the name, the click
\* follows before the page is rendered again.
RenameAndSave(u) ==
    /\ Loaded
    /\ events + 1 < MaxEvents
    /\ can_save(username, current_selections)
    /\ u # username
    /\ ~can_save(u, current_selections)
    /\ username' = u
    /\ SaveClicked(u, widgets)
    /\ events' = events + 2
    /\ UNCHANGED source_files
    /\ UNCHANGED << conc_vars, scan_vars >>

\* The reviewer unticks the last ticked image and clicks "Save & Next" before
\* the page is rendered again.
ToggleAndSave(i) ==
    /\ Loaded
    /\ events + 1 < MaxEvents
    /\ can_save(username, current_selections)
    /\ widgets[i].live
    /\ LET w1 == [widgets EXCEPT ![i].select = ~widgets[i].select]
           r0 == ScriptRun(current_index, last_loaded_product,
                           current_selections, w1, source_files)
       IN  /\ ~can_save(username, r0.selections)
           /\ SaveClicked(username, w1)
    /\ events' = events + 2
    /\ UNCHANGED << username, source_files >>
    /\ UNCHANGED << conc_vars, scan_vars >>

\* The reviewer picks color c for image i and unticks the image before the
\* page is rendered again: the run sees the new color with the box unticked.
SetColorAndUntick(i, c) ==
    /\ Loaded
    /\ events + 1 < MaxEvents
    /\ widgets[i].live
    /\ widgets[i].select
    /\ c # widgets[i].color
    /\ LET w1 == [widgets EXCEPT ![i] = [live |-> TRUE, select |-> FALSE,
                                         color |-> c]]
           r == ScriptRun(current_index, last_loaded_product,
                          current_selections, w1, source_files)
       IN  /\ current_selections' = r.selections
           /\ widgets' = r.widgets
           /\ clicks' = IF r.widgets[i].live THEN Without(clicks, i) ELSE clicks
    /\ last_op' = [kind |-> "color", name |-> i, color |-> c]
    /\ UNCHANGED << current_index, username, last_loaded_product, source_files,
                    output_folder >>
    /\ events' = events + 2
    /\ UNCHANGED << conc_vars, scan_vars >>

\* An image of the product on display is removed from outside the session,
\* between the scan that listed it and the save that copies it.
Vanish(p, i) ==
    /\ Loaded
    /\ <<p, i>> \in source_files
    /\ Cardinality(InitialSource \ source_files) < MaxVanish
    /\ source_files' = source_files \ {<<p, i>>}
    /\ UNCHANGED << current_index, username, current_selections,
                    last_loaded_product, widgets, clicks, output_folder,
                    last_op, events >>
    /\ UNCHANGED << conc_vars, scan_vars >>

SessionNext ==
    \/ Load
    \/ \E i \in FileNames : ToggleSelection(i)
    \/ \E i \in FileNames, c \in Colors : SetColor(i, c)
    \/ \E u \in Usernames : SetUsername(u)
    \/ Previous
    \/ \E typed \in 1..MaxJump : Jump(typed)
    \/ SaveAndNext
    \/ Delete
    \/ \E u \in Usernames : RenameAndSave(u)
    \/ \E i \in FileNames : ToggleAndSave(i)
    \/ \E i \in FileNames, c \in Colors : SetColorAndUntick(i, c)
    \/ \E i \in 1..NumImages : Vanish(CurrentProduct, i)

----------------------------------------------------------------------------
(* Catalog scanner: get_all_product_folders.                               *)
(*                                                                         *)
(* A name is a sequence of characters; a tree is a set of entries, each a  *)
(* name and whether it is a directory.  iterdir() yields the entries in an *)
(* order of the file system's choosing.                                    *)

MaxNameLen == 2      \* characters of an entry's name
MaxEntries == 3      \* entries directly under SOURCE_FOLDER

Alphabet == {"a", "A", "b"}

\* str.lower(), one character
LowerChar(c) == CASE c = "A" -> "a" [] c = "B" -> "b" [] OTHER -> c

\* The code point of a character: what str comparison compares.
Code(c) == CASE c = "A" -> 65 [] c = "B" -> 66 [] c = "a" -> 97 [] c = "b" -> 98

LowerName(name) == [k \in DOMAIN name |-> LowerChar(name[k])]

\* str.__lt__: x < y
RECURSIVE StrLess(_, _)
StrLess(x, y) ==
    IF y = << >> THEN FALSE
    ELSE IF x = << >> THEN TRUE
    ELSE IF Code(Head(x)) # Code(Head(y)) THEN Code(Head(x)) < Code(Head(y))
    ELSE StrLess(Tail(x), Tail(y))

EntryNames == UNION {[1..n -> Alphabet] : n \in 1..MaxNameLen}

Entries == [name : EntryNames, is_dir : BOOLEAN]

RECURSIVE TreesUpTo(_)
\* The trees of at most n entries, no two of one name.
TreesUpTo(n) ==
    IF n = 0 THEN {{}}
    ELSE LET smaller == TreesUpTo(n - 1)
         IN  smaller \cup
             {pair[1] \cup {pair[2]} :
                 pair \in {q \in smaller \X Entries :
                              \A y \in q[1] : y.name # q[2].name}}

\* The orders iterdir() can yield the entries of `tree` in.
Enumerations(tree) ==
    {order \in [1..Cardinality(tree) -> tree] :
        \A k, l \in 1..Cardinality(tree) : k # l => order[k] # order[l]}

\* Insert x into a list sorted by key, behind the elements whose key is not
\* greater: list.sort is stable.
RECURSIVE InsertByKey(_, _)
InsertByKey(sorted, x) ==
    IF sorted = << >> THEN << x >>
    ELSE IF StrLess(LowerName(x), LowerName(Head(sorted)))
         THEN << x >> \o sorted
         ELSE << Head(sorted) >> \o InsertByKey(Tail(sorted), x)

RECURSIVE SortByLowerName(_)
\* folders.sort(key=lambda x: x.name.lower())
SortByLowerName(folders) ==
    IF folders = << >> THEN << >>
    ELSE InsertByKey(SortByLowerName(SubSeq(folders, 1, Len(folders) - 1)),
                     folders[Len(folders)])

\* get_all_product_folders, given whether SOURCE_FOLDER exists and what
\* iterdir() yields.
get_all_product_folders(exists, listing) ==
    IF ~exists THEN << >>
    ELSE LET dirs == SelectSeq(listing, LAMBDA e : e.is_dir)
         IN  SortByLowerName([k \in DOMAIN dirs |-> dirs[k].name])

NotCalled == [called |-> FALSE]

ScanInit ==
    /\ source_exists \in BOOLEAN
    /\ source_tree \in (IF source_exists THEN TreesUpTo(MaxEntries) ELSE {{}})
    /\ scan_result = NotCalled
    /\ scan_prev = NotCalled

\* One call of get_all_product_folders on the unchanged tree.
Scan ==
    /\ \E listing \in Enumerations(source_tree) :
          scan_result' = [called |-> TRUE,
                          folders |-> get_all_product_folders(source_exists, listing)]
    /\ scan_prev' = scan_result
    /\ UNCHANGED << source_tree, source_exists >>
    /\ UNCHANGED << session_vars, conc_vars >>

ScanIdle ==
    /\ source_exists = TRUE
    /\ source_tree = {}
    /\ scan_result = NotCalled
    /\ scan_prev = NotCalled

----------------------------------------------------------------------------
(* Concurrent saves: sessions inside save_selection for the same product,  *)
(* one file-system call per step, and a reader of selection.json.          *)

NumSessions == 2     \* sessions saving the same product
MaxSaves == 2        \* save_selection calls of one session
NumChunks == 2       \* write() calls that carry one record to the file

\* The files the folder's two names and the open descriptors can refer to at
\* once: one per session, and one more.
MaxInodes == NumSessions + 1

Sessions == 1..NumSessions

\* The text of the record that call number n of session s writes.
RecordText(s, n) == [k \in 1..NumChunks |-> [by |-> s, call |-> n, part |-> k]]

Hole == [by |-> 0, call |-> 0, part |-> 0]

\* write() of one chunk at offset pos of a file holding `text`.
WriteAt(text, pos, chunk) ==
    [k \in 1..Max(Len(text), pos + 1) |->
        IF k = pos + 1 THEN chunk
        ELSE IF k <= Len(text) THEN text[k]
        ELSE Hole]

\* The inodes some name or open descriptor refers to.
InUse == {tmp_ino, sel_ino} \cup {savers[s].fd : s \in Sessions}

ConcInit ==
    /\ inodes = [i \in 1..MaxInodes |-> << >>]
    /\ tmp_ino = 0
    /\ sel_ino = 0
    /\ savers = [s \in Sessions |-> [pc |-> "idle", fd |-> 0, pos |-> 0, calls |-> 0]]
    /\ observed = [read |-> FALSE]

\* save_selection is entered: the folder is made, the sources are checked
\* and copied, selection_data is built.
BeginSave(s) ==
    /\ savers[s].pc = "idle"
    /\ savers[s].calls < MaxSaves
    /\ savers' = [savers EXCEPT ![s].pc = "open", ![s].calls = @ + 1]
    /\ UNCHANGED << inodes, tmp_ino, sel_ino, observed >>
    /\ UNCHANGED << session_vars, scan_vars >>

\* open(temp_file, "w"): the file of that name is truncated, or created.
OpenTemp(s) ==
    /\ savers[s].pc = "open"
    /\ IF tmp_ino # 0
       THEN /\ inodes' = [inodes EXCEPT ![tmp_ino] = << >>]
            /\ savers' = [savers EXCEPT ![s].pc = "dump", ![s].fd = tmp_ino,
                                        ![s].pos = 0]
            /\ UNCHANGED tmp_ino
       ELSE \E i \in 1..MaxInodes :
               /\ i \notin InUse
               /\ \A j \in 1..MaxInodes : j \notin InUse => i <= j
               /\ inodes' = [inodes EXCEPT ![i] = << >>]
               /\ tmp_ino' = i
               /\ savers' = [savers EXCEPT ![s].pc = "dump", ![s].fd = i,
                                           ![s].pos = 0]
    /\ UNCHANGED << sel_ino, observed >>
    /\ UNCHANGED << session_vars, scan_vars >>

\* json.dump and the close of the with block: the record reaches the file
\* through the descriptor, one write() after another.
DumpChunk(s) ==
    /\ savers[s].pc = "dump"
    /\ LET sv == savers[s]
           chunk == RecordText(s, sv.calls)[sv.pos + 1]
       IN  /\ inodes' = [inodes EXCEPT ![sv.fd] = WriteAt(@, sv.pos, chunk)]
           /\ savers' = [savers EXCEPT
                            ![s].pos = sv.pos + 1,
                            ![s].pc = IF sv.pos + 1 = NumChunks
                                      THEN "replace" ELSE "dump"]
    /\ UNCHANGED << tmp_ino, sel_ino, observed >>
    /\ UNCHANGED << session_vars, scan_vars >>

\* temp_file.replace(selection_file): the name selection.json is moved onto
\* the file named .selection.json.tmp; with no file of that name the call
\* raises and save_selection returns False.
ReplaceTemp(s) ==
    /\ savers[s].pc = "replace"
    /\ IF tmp_ino # 0
       THEN /\ sel_ino' = tmp_ino
            /\ tmp_ino' = 0
       ELSE UNCHANGED << sel_ino, tmp_ino >>
    /\ savers' = [savers EXCEPT ![s].pc = "idle", ![s].fd = 0, ![s].pos = 0]
    /\ UNCHANGED << inodes, observed >>
    /\ UNCHANGED << session_vars, scan_vars >>

\* A reader opens selection.json and reads it to the end.
ReadSelection ==
    /\ sel_ino # 0
    /\ observed' = [read |-> TRUE, text |-> inodes[sel_ino]]
    /\ UNCHANGED << inodes, tmp_ino, sel_ino, savers >>
    /\ UNCHANGED << session_vars, scan_vars >>

ConcIdle ==
    /\ inodes = << >>
    /\ tmp_ino = 0
    /\ sel_ino = 0
    /\ savers = << >>
    /\ observed = [read |-> FALSE]

----------------------------------------------------------------------------
(* The specifications. *)

vars == << session_vars, conc_vars, scan_vars >>

Init == SessionInit /\ ConcIdle /\ ScanIdle

Next == SessionNext

Spec == Init /\ [][Next]_vars

SessionIdle ==
    /\ current_index = 0
    /\ username = ""
    /\ current_selections = << >>
    /\ last_loaded_product = None
    /\ widgets = << >>
    /\ clicks = << >>
    /\ source_files = {}
    /\ output_folder = << >>
    /\ last_op = [kind |-> "none"]
    /\ events = 0

ConcNext ==
    \/ \E s \in Sessions : BeginSave(s)
    \/ \E s \in Sessions : OpenTemp(s)
    \/ \E s \in Sessions : DumpChunk(s)
    \/ \E s \in Sessions : ReplaceTemp(s)
    \/ ReadSelection

ConcSpecInit == ConcInit /\ SessionIdle /\ ScanIdle

ConcSpec == ConcSpecInit /\ [][ConcNext]_vars

ScanNext == Scan

ScanSpecInit == ScanInit /\ SessionIdle /\ ConcIdle

ScanSpec == ScanSpecInit /\ [][ScanNext]_vars

----------------------------------------------------------------------------
(* Properties of the selection store, under Spec.                          *)

\* The step is a "Save & Next" click on product last_op'.product.
SaveStep == events' # events /\ last_op'.kind = "save"

\* The step is a use of the delete section on product last_op'.product.
DeleteStep == events' = events + 1 /\ last_op'.kind = "delete"

\* The record `rec` lists exactly `selected_images`, in order.
ListsExactly(rec, selected_images) ==
    /\ rec.kind = "record"
    /\ Len(rec.images) = Len(selected_images)
    /\ \A k \in 1..Len(selected_images) :
          /\ rec.images[k].original_file = selected_images[k].original_file
          /\ rec.images[k].color = selected_images[k].color

\* Every saved_file of `rec` is in `folder` as a copy of its original_file.
FilesMatch(rec, folder, p) ==
    \A k \in 1..Len(rec.images) :
       \E f \in folder.refs :
          /\ f.name = rec.images[k].saved_file
          /\ f.content = SourceContent(p, rec.images[k].original_file)

\* C2: a save that returns success leaves selection.json holding exactly the
\* new selection list, every saved_file it names being in the product's
\* output folder as a copy of its original_file; a save that returns failure
\* (missing source, or any file-system call raising) leaves selection.json as
\* it was before the call, absent if it was absent.
C2_SaveAtomicOnSuccess ==
    [][SaveStep =>
          LET p == last_op'.product
          IN  IF last_op'.result = "ok"
              THEN /\ ListsExactly(output_folder'[p].selection,
                                   last_op'.selected_images)
                   /\ output_folder'[p].selection.selected_by = last_op'.username
                   /\ FilesMatch(output_folder'[p].selection, output_folder'[p], p)
              ELSE output_folder'[p].selection = output_folder[p].selection]_vars

\* C2 witness: a save failed on a product that had a record, after it had
\* already rewritten ref_* files or the temporary file; the record is the old one.
C2_Witness ==
    /\ last_op.kind = "save"
    /\ last_op.result = "io"
    /\ output_folder[last_op.product].selection.kind = "record"
    /\ ~ListsExactly(output_folder[last_op.product].selection,
                     last_op.selected_images)
    /\ output_folder[last_op.product].tmp # Absent

\* C3 (as claimed): a save that fails with the missing-source message leaves
\* the whole output tree as it was, also when the product had no output
\* folder before.
C3_MissingSourceWritesNothing ==
    [][(SaveStep /\ last_op'.result = "missing")
          => output_folder' = output_folder]_vars

\* C4: is_product_completed is true exactly when selection.json holds a
\* record; right after a successful save of a product it is true, and right
\* after a successful delete it is false, the product's whole output folder
\* (record, copied images, temporary file) being gone.
C4_CompletedIffRecord ==
    /\ \A p \in Products :
          is_product_completed(output_folder, p)
             <=> output_folder[p].selection.kind = "record"
    /\ (last_op.kind = "save" /\ last_op.result = "ok")
          => is_product_completed(output_folder, last_op.product)
    /\ (last_op.kind = "delete" /\ last_op.result = "ok")
          => /\ ~is_product_completed(output_folder, last_op.product)
             /\ output_folder[last_op.product] = NoFolder

\* C4 witness: a completed product has just been deleted.
C4_Witness ==
    /\ last_op.kind = "delete"
    /\ last_op.result = "ok"
    /\ ~is_product_completed(output_folder, last_op.product)

C10_DeleteWithoutRecord ==
    [][(DeleteStep /\ ~is_product_completed(output_folder, last_op'.product))
          => /\ last_op'.result = "not_found"
             /\ output_folder' = output_folder
             /\ source_files' = source_files]_vars

\* C10 witness: nothing to delete was reported for a product whose output
\* folder holds what a failed save left.
C10_Witness ==
    /\ last_op.kind = "delete"
    /\ last_op.result = "not_found"
    /\ output_folder[last_op.product].exists
    /\ \/ output_folder[last_op.product].refs # {}
       \/ output_folder[last_op.product].tmp # Absent

----------------------------------------------------------------------------
(* Properties of the review session, under Spec.                           *)

\* The file names of a list are in listing order: strictly increasing.
InListingOrder(files) ==
    \A k, l \in DOMAIN files : k < l => files[k] < files[l]

\* C6: the list collected for save holds exactly the images whose entry has
\* selected = TRUE, in the sorted listing order, and a successful save names
\* the k-th of them ref_<k>_<color><ext>, k from 1, in whatever order the
\* reviewer ticked them.
C6_ListingOrderNotClickOrder ==
    /\ LET collected == selected_images_of(current_selections)
       IN  /\ InListingOrder([k \in DOMAIN collected |-> collected[k].original_file])
           /\ {collected[k].original_file : k \in DOMAIN collected}
                 = {current_selections[k].name :
                       k \in {j \in DOMAIN current_selections :
                                 current_selections[j].selected}}
    /\ (last_op.kind = "save" /\ last_op.result = "ok")
          => LET images == output_folder[last_op.product].selection.images
             IN  /\ InListingOrder([k \in DOMAIN images |-> images[k].original_file])
                 /\ [k \in DOMAIN images |->
                        [original_file |-> images[k].original_file,
                         color |-> images[k].color]] = last_op.selected_images
                 /\ \A k \in DOMAIN images :
                       images[k].saved_file
                          = RefName(k, images[k].color,
                                    Lower(Suffix(images[k].original_file)))

\* C6 witness: two images were ticked against their listing order and saved.
C6_Witness ==
    /\ last_op.kind = "save"
    /\ last_op.result = "ok"
    /\ Len(last_op.clicks) = 2
    /\ last_op.clicks[1] > last_op.clicks[2]

\* C7 (as claimed): once a navigation without a save has loaded a different
\* product, every entry of current_selections is unselected with color
\* "unknown".
C7_NavigationDiscardsSelections ==
    (last_op.kind = "nav" /\ current_index # last_op.from)
       => \A k \in DOMAIN current_selections :
             /\ ~current_selections[k].selected
             /\ current_selections[k].color = "unknown"

\* C8 (as claimed): current_index stays in [0, productCount-1]; Previous and
\* Next stop at the ends; a jump to any number is pinned into the range, so
\* a jump to 5 with 3 products leaves current_index = 2.
C8_JumpIsClamped ==
    /\ current_index \in 0..(NumProducts - 1)
    /\ (last_op.kind = "nav" /\ last_op.via = "previous")
          => current_index = Max(0, last_op.from - 1)
    /\ (last_op.kind = "save" /\ last_op.result = "ok")
          => current_index = Min(NumProducts - 1, last_op.from + 1)
    /\ (last_op.kind = "nav" /\ last_op.via = "jump")
          => current_index = Min(NumProducts, Max(1, last_op.request)) - 1

\* C8 (amended): current_index stays in [0, productCount-1]; Previous and
\* Next stop at the ends; a jump to a number in [1, productCount] sets
\* current_index to that number less one, and a number outside the range
\* leaves current_index either at the nearer end or where it was.
C8_IndexInRange ==
    /\ current_index \in 0..(NumProducts - 1)
    /\ (last_op.kind = "nav" /\ last_op.via = "previous")
          => current_index = Max(0, last_op.from - 1)
    /\ (last_op.kind = "save" /\ last_op.result = "ok")
          => current_index = Min(NumProducts - 1, last_op.from + 1)
    /\ (last_op.kind = "nav" /\ last_op.via = "jump")
          => IF last_op.request \in 1..NumProducts
             THEN current_index = last_op.request - 1
             ELSE current_index
                     \in {last_op.from,
                          Min(NumProducts, Max(1, last_op.request)) - 1}

\* C8 witness: a number beyond the last product was typed on a product that
\* is not the last one.
C8_Witness ==
    /\ last_op.kind = "nav"
    /\ last_op.via = "jump"
    /\ last_op.request > NumProducts
    /\ last_op.from < NumProducts - 1

----------------------------------------------------------------------------
(* Properties of concurrent saves (ConcSpec) and of the scanner (ScanSpec). *)

\* The text is one whole record, written by one save_selection call.
IsOneRecord(text) ==
    \E s \in Sessions, n \in 1..MaxSaves : text = RecordText(s, n)

\* C1 (as claimed): whatever the interleaving of the saves, what a reader
\* reads from selection.json is one complete record written by one call.
C1_ReaderSeesCompleteRecord ==
    observed.read => IsOneRecord(observed.text)

\* The names are in case-insensitive lexicographic order.
InLowerOrder(folders) ==
    \A k, l \in DOMAIN folders :
       k < l => ~StrLess(LowerName(folders[l]), LowerName(folders[k]))

\* C9 (as claimed): on the unchanged tree every call returns the same
\* sequence, whatever order the directory is enumerated in, and the sequence
\* is the directory names in case-insensitive lexicographic order.
C9_ScanDeterministic ==
    /\ scan_result.called
          => /\ InLowerOrder(scan_result.folders)
             /\ {scan_result.folders[k] : k \in DOMAIN scan_result.folders}
                   = {e.name : e \in {x \in source_tree : x.is_dir}}
    /\ (scan_result.called /\ scan_prev.called)
          => scan_result.folders = scan_prev.folders

----------------------------------------------------------------------------
(* Properties of the save gate and of the color dropdown, under Spec.      *)

\* C11 (as claimed): "Save & Next" acts only when the name is non-empty and
\* at least one image is selected, so every selection record in the output
\* tree has a non-empty selected_by and a non-empty images list.
C11_RecordsHaveAuthorAndImages ==
    \A p \in Products :
       output_folder[p].selection.kind = "record"
          => /\ output_folder[p].selection.selected_by # ""
             /\ output_folder[p].selection.images # << >>

\* C12: a failed "Save & Next" leaves current_index, last_loaded_product and
\* the selections where they were, so the reviewer stays on the product with
\* the selection the save was handed; a successful one has published the
\* record of that selection and moves current_index one product on, stopping
\* at the last product.
C12_AdvanceOnlyOnSuccess ==
    [][SaveStep =>
          LET p == last_op'.product
          IN  IF last_op'.result = "ok"
              THEN /\ ListsExactly(output_folder'[p].selection,
                                   last_op'.selected_images)
                   /\ current_index' =
                         Min(Len(product_folders) - 1, current_index + 1)
              ELSE /\ current_index' = current_index
                   /\ last_loaded_product' = last_loaded_product
                   /\ selected_images_of(current_selections')
                         = last_op'.selected_images
                   /\ (events' = events + 1
                          => current_selections' = current_selections)]_vars

\* C12 witness: a save failed on a product that is not the last one, and the
\* session is still on that product with the ticked images it tried to save.
C12_Witness ==
    /\ last_op.kind = "save"
    /\ last_op.result # "ok"
    /\ last_op.from < Len(product_folders) - 1
    /\ current_index = last_op.from
    /\ last_loaded_product = last_op.product
    /\ last_op.selected_images # << >>
    /\ selected_images_of(current_selections) = last_op.selected_images

\* The entry of image `name` in the dict `sel`.
EntryOf(sel, name) == sel[IndexOf(sel, name)]

\* The step is a run that receives color last_op'.color for image
\* last_op'.name with the image's box unticked, and renders the image.
ColorWhileUnselectedStep ==
    /\ events' # events
    /\ last_op'.kind = "color"
    /\ widgets'[last_op'.name].live

\* The step is a run in which the reviewer ticks the box of image i.
TickStep(i) ==
    /\ events' = events + 1
    /\ last_op'.kind = "ui"
    /\ widgets[i].live /\ ~widgets[i].select
    /\ widgets'[i].live /\ widgets'[i].select

\* C13 (as claimed): a color picked for an image whose box is unticked is
\* stored in the image's entry of current_selections.
C13_SetColorStoredRegardless ==
    [][ColorWhileUnselectedStep
          => EntryOf(current_selections', last_op'.name).color
                = last_op'.color]_vars

\* C13 (amended): a color picked for an image whose box is unticked leaves
\* the image's entry with the color it had; the dropdown keeps the picked
\* color, and ticking the image gives the entry the dropdown's color, which
\* is the color a save then records.
C13_ColorStoredWhenSelected ==
    [][/\ ColorWhileUnselectedStep
          => LET i == last_op'.name
             IN  /\ ~EntryOf(current_selections', i).selected
                 /\ EntryOf(current_selections', i).color
                       = EntryOf(current_selections, i).color
                 /\ widgets'[i].color = last_op'.color
       /\ \A i \in FileNames :
             TickStep(i)
                => /\ EntryOf(current_selections', i).selected
                   /\ EntryOf(current_selections', i).color = widgets[i].color
       /\ SaveStep
             => \A k \in DOMAIN last_op'.selected_images :
                   LET img == last_op'.selected_images[k]
                   IN  widgets[img.original_file].live
                          => img.color = widgets[img.original_file].color]_vars

\* C13 witness: the run has received a color for an unticked image; the entry
\* still has its former color and the dropdown holds the picked one.
C13_Witness ==
    /\ last_op.kind = "color"
    /\ widgets[last_op.name].live
    /\ ~widgets[last_op.name].select
    /\ widgets[last_op.name].color = last_op.color
    /\ ~EntryOf(current_selections, last_op.name).selected
    /\ EntryOf(current_selections, last_op.name).color # last_op.color

============================================================================
